---- MODULE Spec2Model ----
(***************************************************************************)
(* Sort-merge inner join of csv_aggregation.rs: the DataSet type with its  *)
(* column lookup (key_index) and in-place stable sort (sort_by_index), and *)
(* Aggregate::inner_join with its two cursors and the inner scan cursor k. *)
(*                                                                         *)
(* A field (Rust &str) is a sequence of byte codes, compared the way       *)
(* str::cmp compares: lexicographically, byte by byte.  Column names are   *)
(* only ever compared for equality and are TLA+ strings.  Cursors and      *)
(* column indexes are zero-based as in the code; row number i of a Vec is  *)
(* element i + 1 of the sequence that models it.                           *)
(***************************************************************************)
EXTENDS Integers, Sequences, FiniteSets, TLC

VARIABLES
    left,          \* self: the left DataSet [headers, records]
    right,         \* right: the right DataSet [headers, records]
    left0,         \* the left DataSet as it was constructed (never assigned)
    right0,        \* the right DataSet as it was constructed (never assigned)
    op,            \* the operation called: "none", "key_index", "sort_by_index", "inner_join"
    key,           \* the key argument of key_index / inner_join
    index,         \* the index argument of sort_by_index
    pc,            \* position inside the operation
    left_index,    \* inner_join local
    right_index,   \* inner_join local
    headers,       \* inner_join local: merged headers
    records,       \* inner_join local: result rows pushed so far
    left_cursor,   \* inner_join local
    right_cursor,  \* inner_join local
    k,             \* inner_join local: inner scan cursor
    ret,           \* the value returned by the operation
    prev           \* the value returned by the previous inner_join on these datasets

vars == <<left, right, left0, right0, op, key, index, pc, left_index, right_index,
          headers, records, left_cursor, right_cursor, k, ret, prev>>

----------------------------------------------------------------------------
(* Bounds of the explored inputs *)

MaxLeftRows == 3
MaxRightRows == 3

(* Field values: "a" < "ab" < "b" in str::cmp order (a proper prefix sorts first) *)
KeyVals == { <<97>>, <<97, 98>>, <<98>> }

(* The non-key field of the row at position p (1-based): "1", "2", "3", ... *)
Tag(p) == << 48 + p >>

(* Column names asked for *)
KeyNames == { "id" }
LookupNames == { "id", "v", "zz" }

(* Indexes passed to sort_by_index; headers have at most two columns *)
IndexArgs == { 0, 1, 2 }

(* Header layouts of the inputs; keycol is the (1-based) column that holds *)
(* values of KeyVals, 0 when there is none; every other column holds Tag.  *)
LeftShapes ==
    { [headers |-> <<"v", "id">>, keycol |-> 2],
      [headers |-> <<"id", "id">>, keycol |-> 1],
      [headers |-> <<"v">>, keycol |-> 0],
      [headers |-> << >>, keycol |-> 0] }

RightShapes ==
    { [headers |-> <<"id">>, keycol |-> 1],
      [headers |-> <<"v", "id">>, keycol |-> 2],
      [headers |-> <<"v">>, keycol |-> 0] }

----------------------------------------------------------------------------
(* struct DataSet and DataSet::new *)

DataSet(h, r) == [headers |-> h, records |-> r]

RowOf(shape, kv, p) ==
    SubSeq([c \in 1..Len(shape.headers) |-> IF c = shape.keycol THEN kv ELSE Tag(p)],
           1, Len(shape.headers))

DataSetsOf(shape, max) ==
    UNION { { DataSet(shape.headers, SubSeq([p \in 1..n |-> RowOf(shape, f[p], p)], 1, n)) :
                f \in [1..n -> KeyVals] } : n \in 0..max }

LeftInputs == UNION { DataSetsOf(s, MaxLeftRows) : s \in LeftShapes }
RightInputs == UNION { DataSetsOf(s, MaxRightRows) : s \in RightShapes }

----------------------------------------------------------------------------
(* Results: Result<T, Box<dyn Error>> *)

NoRet == [tag |-> "None"]
OkIndex(i) == [tag |-> "Ok", index |-> i]
OkUnit == [tag |-> "Ok"]
OkDataSet(d) == [tag |-> "Ok", headers |-> d.headers, records |-> d.records]
ErrColumn(name) == [tag |-> "Err", error |-> "ColumnDoesNotExist", column |-> name]
ErrIndex(i) == [tag |-> "Err", error |-> "IndexOutOfBounds", index |-> i]

----------------------------------------------------------------------------
(* str comparison: Ord for str is lexicographic on bytes *)

RECURSIVE StrLess(_, _)
StrLess(a, b) ==
    IF b = << >> THEN FALSE
    ELSE IF a = << >> THEN TRUE
    ELSE IF Head(a) < Head(b) THEN TRUE
    ELSE IF Head(a) > Head(b) THEN FALSE
    ELSE StrLess(Tail(a), Tail(b))

----------------------------------------------------------------------------
(* DataSet::key_index *)

KeyIndexLast(hdrs, name) ==
    IF \E p \in 1..Len(hdrs) : hdrs[p] = name
    THEN OkIndex((CHOOSE p \in 1..Len(hdrs) :
                    hdrs[p] = name /\ \A q \in 1..Len(hdrs) : hdrs[q] = name => q <= p) - 1)
    ELSE ErrColumn(name)

RECURSIVE Position(_, _, _)
Position(hdrs, name, from) ==
    IF from > Len(hdrs) THEN -1
    ELSE IF hdrs[from] = name THEN from - 1
    ELSE Position(hdrs, name, from + 1)

key_index(hdrs, name) ==
    LET p == Position(hdrs, name, 1)
    IN  IF p >= 0 THEN OkIndex(p) ELSE ErrColumn(name)

----------------------------------------------------------------------------
(* DataSet::sort_by_index *)

(* the comparator reversed: b[index].cmp(&a[index]) *)
RankDescending(recs, idx, p) ==
    Cardinality({ q \in 1..Len(recs) : StrLess(recs[p][idx + 1], recs[q][idx + 1]) })
        + Cardinality({ q \in 1..p : recs[q][idx + 1] = recs[p][idx + 1] })

(* rows of equal field come out in reverse input order *)
RankTiesReversed(recs, idx, p) ==
    Cardinality({ q \in 1..Len(recs) : StrLess(recs[q][idx + 1], recs[p][idx + 1]) })
        + Cardinality({ q \in p..Len(recs) : recs[q][idx + 1] = recs[p][idx + 1] })

(* where a stable sort puts row p: after the rows of smaller field, and *)
(* after the rows of equal field that stood before it                   *)
Rank(recs, idx, p) ==
    Cardinality({ q \in 1..Len(recs) : StrLess(recs[q][idx + 1], recs[p][idx + 1]) })
        + Cardinality({ q \in 1..p : recs[q][idx + 1] = recs[p][idx + 1] })

(* Vec::sort_by with |a, b| a[index].cmp(&b[index]): a stable sort *)
SortBy(recs, idx) ==
    SubSeq([i \in 1..Len(recs) |->
                recs[CHOOSE p \in 1..Len(recs) : Rank(recs, idx, p) = i]],
           1, Len(recs))

(* the pair <<result, records afterwards>> *)
sort_by_index(d, idx) ==
    IF idx >= Len(d.headers)
    THEN <<ErrIndex(idx), d.records>>
    ELSE <<OkUnit, SortBy(d.records, idx)>>

----------------------------------------------------------------------------
Init ==
    /\ left \in LeftInputs
    /\ right \in RightInputs
    /\ left0 = left
    /\ right0 = right
    /\ op = "none"
    /\ key = ""
    /\ index = 0
    /\ pc = "idle"
    /\ left_index = 0
    /\ right_index = 0
    /\ headers = << >>
    /\ records = << >>
    /\ left_cursor = 0
    /\ right_cursor = 0
    /\ k = 0
    /\ ret = NoRet
    /\ prev = NoRet

locals == <<left_index, right_index, headers, records, left_cursor, right_cursor, k>>

(* left.key_index(name) called on its own *)
KeyIndexCall ==
    /\ pc = "idle"
    /\ \E name \in LookupNames :
        /\ key' = name
        /\ ret' = key_index(left.headers, name)
    /\ op' = "key_index"
    /\ pc' = "done"
    /\ UNCHANGED <<left, right, left0, right0, index, locals, prev>>

(* left.sort_by_index(i) called on its own *)
SortByIndexCall ==
    /\ pc = "idle"
    /\ \E i \in IndexArgs :
        LET s == sort_by_index(left, i)
        IN  /\ index' = i
            /\ ret' = s[1]
            /\ left' = [left EXCEPT !.records = s[2]]
    /\ op' = "sort_by_index"
    /\ pc' = "done"
    /\ UNCHANGED <<right, left0, right0, key, locals, prev>>

----------------------------------------------------------------------------
(* Aggregate::inner_join for DataSet *)

(* a row access recs[row][col] that does not panic *)
CanIndex(d, row, col) ==
    /\ row < Len(d.records)
    /\ col < Len(d.records[row + 1])

Field(d, row, col) == d.records[row + 1][col + 1]

ChainSwapped(a, b) == b \o a

(* StringRecord::from(a.iter().chain(b.iter()).collect()) *)
Chain(a, b) == a \o b

Panic ==
    /\ pc' = "panic"
    /\ UNCHANGED <<left, right, left0, right0, op, key, index, locals, ret, prev>>

(* the left dataset sorted as soon as its lookup succeeds *)
InnerJoinCallSortsEarly ==
    /\ \E name \in KeyNames :
        /\ \/ pc = "idle"
           \/ pc = "done" /\ op = "inner_join" /\ ret.tag = "Ok"
                /\ prev = NoRet /\ name = key
        /\ key' = name
        /\ LET li == key_index(left.headers, name)
               ri == key_index(right.headers, name)
           IN  IF li.tag = "Err"
               THEN /\ ret' = li
                    /\ pc' = "done"
                    /\ UNCHANGED <<left, left_index, right_index>>
               ELSE IF ri.tag = "Err"
               THEN /\ ret' = ri
                    /\ pc' = "done"
                    /\ left' = [left EXCEPT !.records = sort_by_index(left, li.index)[2]]
                    /\ left_index' = li.index
                    /\ UNCHANGED right_index
               ELSE /\ ret' = NoRet
                    /\ pc' = "resolved"
                    /\ left' = [left EXCEPT !.records = sort_by_index(left, li.index)[2]]
                    /\ left_index' = li.index
                    /\ right_index' = ri.index
    /\ prev' = IF pc = "idle" THEN NoRet ELSE ret
    /\ op' = "inner_join"
    /\ UNCHANGED <<right, left0, right0, index, headers, records,
                   left_cursor, right_cursor, k>>

(* entry and the two lookups; a second call joins the datasets as the *)
(* first call left them                                                *)
InnerJoinCall ==
    /\ \E name \in KeyNames :
        /\ \/ pc = "idle"
           \/ pc = "done" /\ op = "inner_join" /\ ret.tag = "Ok"
                /\ prev = NoRet /\ name = key
        /\ key' = name
        /\ LET li == key_index(left.headers, name)
               ri == key_index(right.headers, name)
           IN  IF li.tag = "Err"
               THEN /\ ret' = li
                    /\ pc' = "done"
                    /\ UNCHANGED <<left_index, right_index>>
               ELSE IF ri.tag = "Err"
               THEN /\ ret' = ri
                    /\ pc' = "done"
                    /\ left_index' = li.index
                    /\ UNCHANGED right_index
               ELSE /\ ret' = NoRet
                    /\ pc' = "resolved"
                    /\ left_index' = li.index
                    /\ right_index' = ri.index
    /\ prev' = IF pc = "idle" THEN NoRet ELSE ret
    /\ op' = "inner_join"
    /\ UNCHANGED <<left, right, left0, right0, index, headers, records,
                   left_cursor, right_cursor, k>>

(* the early return taken for an empty left dataset only *)
MergeHeadersLeftOnly ==
    /\ pc = "resolved"
    /\ headers' = Chain(left.headers, right.headers)
    /\ records' = << >>
    /\ IF left.records = << >>
       THEN /\ ret' = OkDataSet(DataSet(headers', records'))
            /\ pc' = "done"
       ELSE /\ pc' = "sort"
            /\ UNCHANGED ret
    /\ UNCHANGED <<left, right, left0, right0, op, key, index, left_index, right_index,
                   left_cursor, right_cursor, k, prev>>

(* merge headers, then the empty-input return *)
MergeHeaders ==
    /\ pc = "resolved"
    /\ headers' = Chain(left.headers, right.headers)
    /\ records' = << >>
    /\ IF left.records = << >> \/ right.records = << >>
       THEN /\ ret' = OkDataSet(DataSet(headers', records'))
            /\ pc' = "done"
       ELSE /\ pc' = "sort"
            /\ UNCHANGED ret
    /\ UNCHANGED <<left, right, left0, right0, op, key, index, left_index, right_index,
                   left_cursor, right_cursor, k, prev>>

(* the two sorts, each propagated with ?, then the cursors *)
SortBoth ==
    /\ pc = "sort"
    /\ LET sl == sort_by_index(left, left_index)
           sr == sort_by_index(right, right_index)
       IN  IF sl[1].tag = "Err"
           THEN /\ ret' = sl[1]
                /\ pc' = "done"
                /\ UNCHANGED <<left, right, left_cursor, right_cursor>>
           ELSE IF sr[1].tag = "Err"
           THEN /\ ret' = sr[1]
                /\ pc' = "done"
                /\ left' = [left EXCEPT !.records = sl[2]]
                /\ UNCHANGED <<right, left_cursor, right_cursor>>
           ELSE /\ left' = [left EXCEPT !.records = sl[2]]
                /\ right' = [right EXCEPT !.records = sr[2]]
                /\ left_cursor' = 0
                /\ right_cursor' = 0
                /\ pc' = "scan"
                /\ UNCHANGED ret
    /\ UNCHANGED <<left0, right0, op, key, index, left_index, right_index,
                   headers, records, k, prev>>

(* the last left row never compared *)
OuterCondShort(lc, rc) ==
    /\ lc < Len(left.records) - 1
    /\ rc < Len(right.records)

(* while left_cursor < self.records.len() && right_cursor < right.records.len() *)
OuterCond(lc, rc) ==
    /\ lc < Len(left.records)
    /\ rc < Len(right.records)

InnerInRangeInclusive(kk) == kk <= Len(right.records)

(* k < right.records.len(), the first operand of the inner while *)
InnerInRange(kk) == kk < Len(right.records)

ScanAccessible ==
    /\ CanIndex(left, left_cursor, left_index)
    /\ CanIndex(right, right_cursor, right_index)

(* the fields match: push the merged record and start the inner scan *)
ScanMatch ==
    /\ pc = "scan"
    /\ OuterCond(left_cursor, right_cursor)
    /\ IF ~ ScanAccessible THEN Panic
       ELSE /\ Field(left, left_cursor, left_index) = Field(right, right_cursor, right_index)
            /\ records' = Append(records, Chain(left.records[left_cursor + 1],
                                                right.records[right_cursor + 1]))
            /\ k' = right_cursor + 1
            /\ pc' = "inner"
            /\ UNCHANGED <<left, right, left0, right0, op, key, index, left_index,
                           right_index, headers, left_cursor, right_cursor, ret, prev>>

(* left value less than right value: advance the left cursor *)
ScanLess ==
    /\ pc = "scan"
    /\ OuterCond(left_cursor, right_cursor)
    /\ IF ~ ScanAccessible THEN Panic
       ELSE /\ StrLess(Field(left, left_cursor, left_index),
                       Field(right, right_cursor, right_index))
            /\ left_cursor' = left_cursor + 1
            /\ UNCHANGED <<left, right, left0, right0, op, key, index, pc, left_index,
                           right_index, headers, records, right_cursor, k, ret, prev>>

(* the else branch without its increment *)
ScanGreaterStuck ==
    /\ pc = "scan"
    /\ OuterCond(left_cursor, right_cursor)
    /\ IF ~ ScanAccessible THEN Panic
       ELSE /\ Field(left, left_cursor, left_index) # Field(right, right_cursor, right_index)
            /\ ~ StrLess(Field(left, left_cursor, left_index),
                         Field(right, right_cursor, right_index))
            /\ UNCHANGED vars

(* otherwise: advance the right cursor *)
ScanGreater ==
    /\ pc = "scan"
    /\ OuterCond(left_cursor, right_cursor)
    /\ IF ~ ScanAccessible THEN Panic
       ELSE /\ Field(left, left_cursor, left_index) # Field(right, right_cursor, right_index)
            /\ ~ StrLess(Field(left, left_cursor, left_index),
                         Field(right, right_cursor, right_index))
            /\ right_cursor' = right_cursor + 1
            /\ UNCHANGED <<left, right, left0, right0, op, key, index, pc, left_index,
                           right_index, headers, records, left_cursor, k, ret, prev>>

(* the inner while holds: push the left row merged with right row k *)
InnerPush ==
    /\ pc = "inner"
    /\ InnerInRange(k)
    /\ IF ~ (CanIndex(left, left_cursor, left_index) /\ CanIndex(right, k, right_index))
       THEN Panic
       ELSE /\ Field(left, left_cursor, left_index) = Field(right, k, right_index)
            /\ records' = Append(records, Chain(left.records[left_cursor + 1],
                                                right.records[k + 1]))
            /\ k' = k + 1
            /\ UNCHANGED <<left, right, left0, right0, op, key, index, pc, left_index,
                           right_index, headers, left_cursor, right_cursor, ret, prev>>

(* the right cursor moved past the run it has just scanned *)
InnerExitSkipsRun ==
    /\ pc = "inner"
    /\ \/ ~ InnerInRange(k)
       \/ /\ InnerInRange(k)
          /\ CanIndex(left, left_cursor, left_index)
          /\ CanIndex(right, k, right_index)
          /\ Field(left, left_cursor, left_index) # Field(right, k, right_index)
    /\ left_cursor' = left_cursor + 1
    /\ right_cursor' = k
    /\ pc' = "scan"
    /\ UNCHANGED <<left, right, left0, right0, op, key, index, left_index, right_index,
                   headers, records, k, ret, prev>>

(* the inner while fails: advance the left cursor only *)
InnerExit ==
    /\ pc = "inner"
    /\ \/ ~ InnerInRange(k)
       \/ /\ InnerInRange(k)
          /\ CanIndex(left, left_cursor, left_index)
          /\ CanIndex(right, k, right_index)
          /\ Field(left, left_cursor, left_index) # Field(right, k, right_index)
    /\ left_cursor' = left_cursor + 1
    /\ pc' = "scan"
    /\ UNCHANGED <<left, right, left0, right0, op, key, index, left_index, right_index,
                   headers, records, right_cursor, k, ret, prev>>

(* the outer while fails: Ok(DataSet::new(headers, records)) *)
ScanExit ==
    /\ pc = "scan"
    /\ ~ OuterCond(left_cursor, right_cursor)
    /\ ret' = OkDataSet(DataSet(headers, records))
    /\ pc' = "done"
    /\ UNCHANGED <<left, right, left0, right0, op, key, index, locals, prev>>

JoinStep ==
    \/ MergeHeaders
    \/ SortBoth
    \/ ScanMatch
    \/ ScanLess
    \/ ScanGreater
    \/ InnerPush
    \/ InnerExit
    \/ ScanExit

Next ==
    \/ KeyIndexCall
    \/ SortByIndexCall
    \/ InnerJoinCall
    \/ MergeHeaders
    \/ SortBoth
    \/ ScanMatch
    \/ ScanLess
    \/ ScanGreater
    \/ InnerPush
    \/ InnerExit
    \/ ScanExit

Spec == Init /\ [][Next]_vars

(* inner_join alone, on a two-column left and a one-column right input with *)
(* two key values; it is synchronous: once called it runs to its return     *)
JoinInit ==
    /\ Init
    /\ left.headers = <<"v", "id">>
    /\ right.headers = <<"id">>
    /\ \A p \in 1..Len(left.records) : left.records[p][2] \in { <<97>>, <<97, 98>> }
    /\ \A q \in 1..Len(right.records) : right.records[q][1] \in { <<97>>, <<97, 98>> }

JoinNext ==
    \/ InnerJoinCall
    \/ JoinStep

JoinSpec == JoinInit /\ [][JoinNext]_vars /\ WF_vars(JoinStep)

----------------------------------------------------------------------------
(* Vocabulary of the properties, stated on the constructed inputs left0 and *)
(* right0 and on the returned value, independently of the operators above.  *)

Range(s) == { s[i] : i \in 1..Len(s) }

KeyIn(hdrs) == \E p \in 1..Len(hdrs) : hdrs[p] = key

(* 1-based column of the first header equal to the key *)
FirstCol(hdrs) ==
    CHOOSE p \in 1..Len(hdrs) : hdrs[p] = key /\ \A q \in 1..(p - 1) : hdrs[q] # key

(* a sorts strictly before b: a is a proper prefix of b, or at the first *)
(* position where they differ a has the smaller byte                     *)
LexLess(a, b) ==
    \E i \in 1..Len(b) :
        /\ \A j \in 1..(i - 1) : j <= Len(a) /\ a[j] = b[j]
        /\ \/ Len(a) = i - 1
           \/ Len(a) >= i /\ a[i] < b[i]

Occurrences(s, x) == Cardinality({ i \in 1..Len(s) : s[i] = x })

JoinCalled == op = "inner_join"
JoinDone == op = "inner_join" /\ pc = "done"
KeyResolves == KeyIn(left0.headers) /\ KeyIn(right0.headers)

LeftKey(p) == left0.records[p][FirstCol(left0.headers)]
RightKey(q) == right0.records[q][FirstCol(right0.headers)]

(* the pairs of a left and a right row position whose key fields are equal *)
MatchingPairs ==
    { pq \in (1..Len(left0.records)) \X (1..Len(right0.records)) :
        LeftKey(pq[1]) = RightKey(pq[2]) }

Joined(pq) == left0.records[pq[1]] \o right0.records[pq[2]]

LeftCount(v) == Cardinality({ p \in 1..Len(left0.records) : LeftKey(p) = v })
RightCount(v) == Cardinality({ q \in 1..Len(right0.records) : RightKey(q) = v })

----------------------------------------------------------------------------
(* C1: when the key is in both headers, the rows inner_join returns are,   *)
(* as a multiset, exactly the concatenations L ++ R over the pairs of a    *)
(* left and a right row position with equal key fields: each pair once,    *)
(* and no row of a key that the other side lacks.                          *)
C1_MatchCompleteness ==
    (JoinDone /\ KeyResolves) =>
        /\ ret.tag = "Ok"
        /\ \A x \in Range(ret.records) \cup { Joined(pq) : pq \in MatchingPairs } :
              Occurrences(ret.records, x)
                  = Cardinality({ pq \in MatchingPairs : Joined(pq) = x })

(* duplicates on both sides, and a left and a right row without partner *)
C1_Witness ==
    /\ JoinDone /\ KeyResolves /\ ret.tag = "Ok"
    /\ Len(ret.records) >= 4
    /\ \E p \in 1..Len(left0.records) : RightCount(LeftKey(p)) = 0
    /\ \E q \in 1..Len(right0.records) : LeftCount(RightKey(q)) = 0

(* C2: a key value in m left rows and n right rows gives exactly m * n     *)
(* result rows with that key; in the inner scan the right cursor stands at *)
(* the first row of the run of that key, the rows pushed for the current   *)
(* left row are that row joined with the right rows from the right cursor  *)
(* up to k, and the scan ends after the n rows of the run.                 *)
C2_FanOut ==
    /\ (JoinDone /\ KeyResolves) =>
          /\ ret.tag = "Ok"
          /\ \A p \in 1..Len(left0.records) : \A q \in 1..Len(right0.records) :
                LeftKey(p) = RightKey(q) =>
                    Cardinality({ i \in 1..Len(ret.records) :
                                    ret.records[i][FirstCol(left0.headers)] = LeftKey(p) })
                        = LeftCount(LeftKey(p)) * RightCount(RightKey(q))
    /\ (JoinCalled /\ pc = "inner") =>
          LET cur == left.records[left_cursor + 1][left_index + 1]
          IN  /\ right.records[right_cursor + 1][right_index + 1] = cur
              /\ right_cursor > 0 => right.records[right_cursor][right_index + 1] # cur
              /\ \A j \in right_cursor..(k - 1) :
                    records[Len(records) - (k - j) + 1]
                        = left.records[left_cursor + 1] \o right.records[j + 1]
              /\ (k = Len(right.records) \/ right.records[k + 1][right_index + 1] # cur)
                    => k - right_cursor = RightCount(cur)

(* a key twice on each side, with another key group matched before it *)
C2_Witness ==
    /\ JoinDone /\ KeyResolves /\ ret.tag = "Ok"
    /\ \E p \in 1..Len(left0.records) :
          /\ LeftCount(LeftKey(p)) = 2
          /\ RightCount(LeftKey(p)) = 2
          /\ \E q \in 1..Len(left0.records) :
                /\ LexLess(LeftKey(q), LeftKey(p))
                /\ RightCount(LeftKey(q)) = 1

(* C3: a key absent from the left or from the right headers makes          *)
(* inner_join return the column error for that key, no dataset, with the   *)
(* rows of both inputs in the order they had, whatever their row counts.   *)
C3_LookupFailure ==
    (JoinCalled /\ ~ KeyResolves) =>
        /\ pc = "done"
        /\ ret = ErrColumn(key)
        /\ left = left0
        /\ right = right0

(* only the right lookup fails; the left rows are out of key order; the *)
(* right dataset has no rows                                            *)
C3_Witness ==
    /\ JoinDone /\ KeyIn(left0.headers) /\ ~ KeyIn(right0.headers)
    /\ ret.tag = "Err"
    /\ right0.records = << >>
    /\ \E p \in 1..Len(left0.records) : \E q \in 1..Len(left0.records) :
          p < q /\ LexLess(LeftKey(q), LeftKey(p))

(* C4: with the key in both headers and no rows on at least one side,      *)
(* inner_join returns zero rows under left.headers ++ right.headers and    *)
(* sorts nothing: both inputs keep their row order.                        *)
C4_EmptyInput ==
    (JoinCalled /\ KeyResolves /\ (left0.records = << >> \/ right0.records = << >>)) =>
        /\ pc \in { "resolved", "done" }
        /\ left = left0
        /\ right = right0
        /\ pc = "done" =>
              ret = OkDataSet(DataSet(left0.headers \o right0.headers, << >>))

(* the right side is empty and the left rows are out of key order *)
C4_Witness ==
    /\ JoinDone /\ KeyResolves /\ ret.tag = "Ok"
    /\ right0.records = << >>
    /\ \E p \in 1..Len(left0.records) : \E q \in 1..Len(left0.records) :
          p < q /\ LexLess(LeftKey(q), LeftKey(p))

(* C5: a successful inner_join returns the headers left.headers followed   *)
(* by right.headers, nothing merged or renamed (the key name is there once *)
(* per occurrence in either input), and every row is a left row followed   *)
(* by a right row, as long as the headers.                                 *)
C5_Layout ==
    (JoinDone /\ ret.tag = "Ok") =>
        LET wl == Len(left0.headers)
            wr == Len(right0.headers)
        IN  /\ Len(ret.headers) = wl + wr
            /\ \A c \in 1..wl : ret.headers[c] = left0.headers[c]
            /\ \A c \in 1..wr : ret.headers[wl + c] = right0.headers[c]
            /\ Occurrences(ret.headers, key)
                  = Occurrences(left0.headers, key) + Occurrences(right0.headers, key)
            /\ \A i \in 1..Len(ret.records) :
                  /\ Len(ret.records[i]) = Len(ret.headers)
                  /\ SubSeq(ret.records[i], 1, wl) \in Range(left0.records)
                  /\ SubSeq(ret.records[i], wl + 1, wl + wr) \in Range(right0.records)

(* rows were joined from inputs of different widths and headers *)
C5_Witness ==
    /\ JoinDone /\ ret.tag = "Ok"
    /\ Len(ret.records) >= 2
    /\ Len(left0.headers) # Len(right0.headers)
    /\ Occurrences(ret.headers, key) = 2

(* C6: key_index(name) returns the smallest zero-based position of name    *)
(* in headers when it occurs, the column error exactly when it occurs      *)
(* nowhere, and changes neither headers nor records.                       *)
C6_KeyIndex ==
    (op = "key_index" /\ pc = "done") =>
        /\ KeyIn(left0.headers) =>
              /\ ret.tag = "Ok"
              /\ left0.headers[ret.index + 1] = key
              /\ \A q \in 1..ret.index : left0.headers[q] # key
        /\ ~ KeyIn(left0.headers) => ret = ErrColumn(key)
        /\ left = left0
        /\ right = right0

(* the name looked up occurs twice in the headers *)
C6_Witness ==
    /\ op = "key_index" /\ pc = "done"
    /\ Occurrences(left0.headers, key) = 2
    /\ ret = OkIndex(0)

(* C7: sort_by_index(index) returns the index error exactly when index is  *)
(* not below the header count, and then records is unchanged; otherwise it *)
(* succeeds, headers are unchanged, and records is its former content in   *)
(* ascending lexicographic order of the field at index, rows of equal      *)
(* field in their former relative order.                                   *)
C7_StableSort ==
    (op = "sort_by_index" /\ pc = "done") =>
        IF index >= Len(left0.headers)
        THEN ret = ErrIndex(index) /\ left = left0
        ELSE /\ ret = OkUnit
             /\ left.headers = left0.headers
             /\ Len(left.records) = Len(left0.records)
             /\ \A i \in 1..Len(left.records) : \A j \in 1..Len(left.records) :
                   i < j => ~ LexLess(left.records[j][index + 1], left.records[i][index + 1])
             /\ \A r \in Range(left0.records) :
                   LET SameField(x) == x[index + 1] = r[index + 1]
                   IN  SelectSeq(left.records, SameField) = SelectSeq(left0.records, SameField)

(* the sort moved a row past two rows of equal field *)
C7_Witness ==
    /\ op = "sort_by_index" /\ pc = "done" /\ ret = OkUnit
    /\ Len(left0.records) = 3
    /\ left0.records[2][index + 1] = left0.records[3][index + 1]
    /\ LexLess(left0.records[2][index + 1], left0.records[1][index + 1])
    /\ left0.records[2] # left0.records[3]

(* C8: once the key is in both headers inner_join returns no error and     *)
(* does not panic: neither sort reports an index out of bounds, and where  *)
(* the scan reads a row, left_cursor and right_cursor are below their row  *)
(* counts and k is below the right row count.                              *)
C8_NoFailure ==
    (JoinCalled /\ KeyResolves) =>
        /\ pc # "panic"
        /\ ret.tag # "Err"
        /\ pc \in { "sort", "scan", "inner" } =>
              /\ left_index < Len(left.headers)
              /\ right_index < Len(right.headers)
        /\ pc = "scan" =>
              /\ left_cursor <= Len(left.records)
              /\ right_cursor <= Len(right.records)
        /\ pc = "inner" =>
              /\ left_cursor < Len(left.records)
              /\ right_cursor < Len(right.records)
              /\ k <= Len(right.records)

(* the inner scan ran up to the end of the right rows *)
C8_Witness ==
    /\ JoinCalled /\ KeyResolves
    /\ pc = "inner"
    /\ k = Len(right.records)
    /\ k >= right_cursor + 2

(* C9: the merge scan ends.  The cursors start at 0 and never decrease;    *)
(* an outer iteration advances exactly one of them by exactly 1 (the left  *)
(* one on a match or when the left field is smaller, the right one only    *)
(* when the left field is greater); k increases by 1 at a time and stays   *)
(* within the right row count; the loop is left when a cursor equals its   *)
(* row count; and every call of inner_join reaches its return.             *)
C9_ScanStep ==
    /\ (pc = "sort" /\ pc' = "scan") => left_cursor' = 0 /\ right_cursor' = 0
    /\ (pc = "scan" /\ pc' = "scan") =>
          LET l == left.records[left_cursor + 1][left_index + 1]
              r == right.records[right_cursor + 1][right_index + 1]
          IN  \/ /\ LexLess(l, r)
                 /\ left_cursor' = left_cursor + 1
                 /\ right_cursor' = right_cursor
              \/ /\ LexLess(r, l)
                 /\ left_cursor' = left_cursor
                 /\ right_cursor' = right_cursor + 1
    /\ (pc = "scan" /\ pc' = "inner") =>
          /\ left_cursor' = left_cursor
          /\ right_cursor' = right_cursor
          /\ k' = right_cursor + 1
    /\ (pc = "inner" /\ pc' = "inner") =>
          /\ left_cursor' = left_cursor
          /\ right_cursor' = right_cursor
          /\ k' = k + 1
          /\ k' <= Len(right.records)
    /\ (pc = "inner" /\ pc' = "scan") =>
          /\ left_cursor' = left_cursor + 1
          /\ right_cursor' = right_cursor
    /\ (pc = "scan" /\ pc' = "done") =>
          \/ left_cursor = Len(left.records)
          \/ right_cursor = Len(right.records)
    /\ pc' \in { "scan", "inner" } =>
          /\ left_cursor' <= Len(left.records)
          /\ right_cursor' <= Len(right.records)

C9_Termination ==
    /\ [][C9_ScanStep]_vars
    /\ (pc \in { "resolved", "sort", "scan", "inner" }) ~> (pc = "done")

(* the scan ended after advancing both cursors and running the inner scan *)
C9_Witness ==
    /\ JoinDone /\ ret.tag = "Ok"
    /\ left_cursor >= 2
    /\ right_cursor >= 2
    /\ k = Len(right.records)
    /\ Len(ret.records) >= 2

(* C10: the row order of the result is a function of the inputs: rows are  *)
(* in non-decreasing key order and, within a key, ordered by the left      *)
(* row's position in the input and then by the right row's position; a     *)
(* second join of the same datasets, which the first one left sorted,      *)
(* returns the same value.                                                 *)
PairBefore(a, b) ==
    \/ LexLess(LeftKey(a[1]), LeftKey(b[1]))
    \/ /\ LeftKey(a[1]) = LeftKey(b[1])
       /\ \/ a[1] < b[1]
          \/ a[1] = b[1] /\ a[2] < b[2]

(* the number of matching pairs that come before pair m *)
Before(m) == Cardinality({ x \in MatchingPairs : PairBefore(x, m) })

C10_DeterminedOrder ==
    (JoinDone /\ ret.tag = "Ok") =>
        /\ Len(ret.records) = Cardinality(MatchingPairs)
        /\ \A m \in MatchingPairs : ret.records[Before(m) + 1] = Joined(m)
        /\ prev # NoRet => ret = prev

(* a second join, of datasets whose rows the first join reordered *)
C10_Witness ==
    /\ JoinDone /\ ret.tag = "Ok"
    /\ prev # NoRet
    /\ Len(ret.records) >= 4
    /\ left # left0
    /\ right # right0

====
